---- MODULE Spec2Model ----
(***************************************************************************)
(* Model of the XCM control channel (src/libxcm/ctl.c): the endpoint       *)
(* lifecycle (ctl_create / ctl_process / ctl_destroy), the bounded client  *)
(* pool with swap-remove compaction, the per-client request/response       *)
(* state machine and the attribute request handlers with redaction of the  *)
(* sensitive attribute.                                                    *)
(*                                                                         *)
(* ctl_process is recursive in the source; it is modelled with an explicit *)
(* call stack, one action per loop iteration and one per function exit.    *)
(* While a call is in progress only the steps of that call (and the        *)
(* arrival of new connections) are enabled.                                *)
(***************************************************************************)
EXTENDS Integers, Sequences, FiniteSets, TLC

(***************************************************************************)
(* Program constants and bounds                                            *)
(***************************************************************************)
MAX_CLIENTS == 2

\* Connections that may wait on the listening socket at one time.
MaxPending == 1

\* Requests read and dispatched in one behaviour.
MaxRequests == 2

\* Fixed limits of the wire protocol (ctl_proto.h), scaled down.
CTL_PROTO_MAX_ATTRS == 3

CTL_ATTR_VALUE_MAX == 2

\* Largest attribute table enumerated by xcm_attr_get_all.
MaxTableLen == 3

XCM_ATTR_TLS_KEY == "tls.key"

\* Descriptor numbers: the listener, one per client and a spare one.
Fds == 1..(MAX_CLIENTS + 2)

NoFd == 0

(***************************************************************************)
(* The attribute table of the owning socket (xcm_attr_get,                 *)
(* xcm_attr_get_all).  Bytes 8 and 9 occur only in the value of the        *)
(* sensitive attribute, bytes 1 and 2 only in the other values, and 0 is   *)
(* the byte written by memset.                                             *)
(***************************************************************************)
SecretBytes == {8, 9}

AttrUniverse ==
    << [name |-> "xcm.type",     type |-> "str",  value |-> <<1>>],
       [name |-> XCM_ATTR_TLS_KEY, type |-> "bin", value |-> <<9, 8>>],
       [name |-> "xcm.service",  type |-> "str",  value |-> <<2, 1>>],
       [name |-> "xcm.blocking", type |-> "bool", value |-> <<1>>] >>

RECURSIVE SubSeqs(_)
SubSeqs(s) ==
    IF s = <<>> THEN {<<>>}
    ELSE LET rest == SubSeqs(Tail(s))
         IN  rest \cup {<<Head(s)>> \o r : r \in rest}

Tables == {t \in SubSeqs(AttrUniverse) : Len(t) <= MaxTableLen}

\* Attribute names a client may ask for.
RequestNames == {"xcm.type", XCM_ATTR_TLS_KEY, "xcm.service"}

HasAttr(table, name) == \E k \in 1..Len(table) : table[k].name = name

AttrOf(table, name) ==
    table[CHOOSE k \in 1..Len(table) : table[k].name = name]

\* xcm_attr_get(): the value type, the value bytes and the return code
\* (the value length, or -1 with errno set).
xcm_attr_get(table, name, capacity) ==
    IF HasAttr(table, name) /\ Len(AttrOf(table, name).value) <= capacity
    THEN [rc |-> Len(AttrOf(table, name).value), found |-> TRUE,
          type |-> AttrOf(table, name).type,
          value |-> AttrOf(table, name).value, err |-> "0"]
    ELSE [rc |-> -1, found |-> FALSE, type |-> "0", value |-> <<>>,
          err |-> IF HasAttr(table, name) THEN "EOVERFLOW" ELSE "ENOENT"]

(***************************************************************************)
(* Protocol messages (struct ctl_proto_msg): a type tag and a union.  The  *)
(* attribute of get_attr_cfm shares its storage with the first entry of    *)
(* get_all_attr_cfm.                                                       *)
(***************************************************************************)
ZeroValue == [j \in 1..CTL_ATTR_VALUE_MAX |-> 0]

ZeroAttr == [name |-> "", value_type |-> "0", any_value |-> ZeroValue,
             value_len |-> 0]

ZeroMsg == [type |-> "get_attr_req",
            attrs |-> [k \in 1..CTL_PROTO_MAX_ATTRS |-> ZeroAttr],
            attrs_len |-> 0,
            rej_errno |-> "0"]

\* memcpy(dst, src, len) into a value buffer: bytes past len keep their
\* old contents.
memcpy(dst, src) ==
    [j \in 1..CTL_ATTR_VALUE_MAX |-> IF j <= Len(src) THEN src[j] ELSE dst[j]]

\* is_sensitive that recognises no attribute name.
is_sensitive_never(attr_name) == FALSE

is_sensitive(attr_name) == attr_name = XCM_ATTR_TLS_KEY

\* clear_attr with the memset left out.
clear_attr_noop(attr) == attr

clear_attr(attr) == [attr EXCEPT !.any_value = ZeroValue]

\* process_get_attr without cfm->attr.value_len = rc.
process_get_attr_nolen(table, req_name, response) ==
    LET got == xcm_attr_get(table, req_name, CTL_ATTR_VALUE_MAX)
        a0  == IF got.found
               THEN [response.attrs[1] EXCEPT
                        !.value_type = got.type,
                        !.any_value = memcpy(@, got.value)]
               ELSE response.attrs[1]
        a1  == IF is_sensitive(req_name) THEN clear_attr(a0) ELSE a0
        rc  == IF is_sensitive(req_name) THEN -1 ELSE got.rc
        attr_errno == IF is_sensitive(req_name) THEN "EACCES" ELSE got.err
    IN  IF rc >= 0
        THEN [response EXCEPT !.type = "get_attr_cfm", !.attrs[1] = a1]
        ELSE [response EXCEPT !.type = "get_attr_rej",
                              !.attrs[1] = a1,
                              !.rej_errno = attr_errno]

\* process_get_attr without response->get_attr_rej.rej_errno = attr_errno.
process_get_attr_noerrno(table, req_name, response) ==
    LET got == xcm_attr_get(table, req_name, CTL_ATTR_VALUE_MAX)
        a0  == IF got.found
               THEN [response.attrs[1] EXCEPT
                        !.value_type = got.type,
                        !.any_value = memcpy(@, got.value)]
               ELSE response.attrs[1]
        a1  == IF is_sensitive(req_name) THEN clear_attr(a0) ELSE a0
        rc  == IF is_sensitive(req_name) THEN -1 ELSE got.rc
    IN  IF rc >= 0
        THEN [response EXCEPT !.type = "get_attr_cfm",
                              !.attrs[1] = [a1 EXCEPT !.value_len = rc]]
        ELSE [response EXCEPT !.type = "get_attr_rej", !.attrs[1] = a1]

process_get_attr(table, req_name, response) ==
    LET got == xcm_attr_get(table, req_name, CTL_ATTR_VALUE_MAX)
        \* xcm_attr_get writes through &cfm->attr.value_type and
        \* &cfm->attr.any_value
        a0  == IF got.found
               THEN [response.attrs[1] EXCEPT
                        !.value_type = got.type,
                        !.any_value = memcpy(@, got.value)]
               ELSE response.attrs[1]
        a1  == IF is_sensitive(req_name) THEN clear_attr(a0) ELSE a0
        rc  == IF is_sensitive(req_name) THEN -1 ELSE got.rc
        attr_errno == IF is_sensitive(req_name) THEN "EACCES" ELSE got.err
    IN  IF rc >= 0
        THEN [response EXCEPT !.type = "get_attr_cfm",
                              !.attrs[1] = [a1 EXCEPT !.value_len = rc]]
        ELSE [response EXCEPT !.type = "get_attr_rej",
                              !.attrs[1] = a1,
                              !.rej_errno = attr_errno]

\* add_attr(): the visitor of xcm_attr_get_all.  acc is the response being
\* filled and whether an assertion has failed.
add_attr(acc, entry) ==
    IF acc.aborted \/ is_sensitive(entry.name) THEN acc
    ELSE LET cfm == acc.msg
             k   == cfm.attrs_len + 1
             len == cfm.attrs_len + 1
         IN  IF ~(len < CTL_PROTO_MAX_ATTRS)
             THEN [acc EXCEPT !.aborted = TRUE]
             ELSE IF ~(cfm.attrs[k].value_len < CTL_ATTR_VALUE_MAX)
             THEN [acc EXCEPT !.aborted = TRUE]
             ELSE [acc EXCEPT
                     !.msg.attrs_len = len,
                     !.msg.attrs[k] =
                        [name |-> entry.name,
                         value_type |-> entry.type,
                         any_value |-> memcpy(cfm.attrs[k].any_value,
                                              entry.value),
                         value_len |-> Len(entry.value)]]

RECURSIVE xcm_attr_get_all(_, _)
xcm_attr_get_all(table, acc) ==
    IF table = <<>> THEN acc
    ELSE xcm_attr_get_all(Tail(table), add_attr(acc, Head(table)))

\* process_get_all_attr without cfm->attrs_len = 0.
process_get_all_attr_noreset(table, response) ==
    xcm_attr_get_all(table, [msg |-> response, aborted |-> FALSE])

process_get_all_attr(table, response) ==
    xcm_attr_get_all(table,
        [msg |-> [response EXCEPT !.attrs_len = 0], aborted |-> FALSE])

(***************************************************************************)
(* State                                                                   *)
(***************************************************************************)
VARIABLES
    phase,        \* "none", "live", "failed", "destroyed", "aborted"
    dir,          \* the control directory: "missing", "notdir", "dir"
    pathExists,   \* a file exists at the derived socket path
    errno,
    server_fd,
    clients,      \* struct client clients[MAX_CLIENTS]
    num_clients,
    reg_set,      \* registered interest of each descriptor
    open,         \* descriptors currently open
    backlog,      \* connections waiting on the listening socket
    stack,        \* activation records of ctl_process
    attrs,        \* the attribute table of the owning socket
    outstanding,  \* per descriptor: requests read minus responses sent
    nreq,         \* requests read and dispatched so far
    naccept,      \* clients added by the current or last top-level call
                  \* of ctl_process, counted up to two
    misuse,       \* the registration set was asked to add a descriptor it
                  \* holds, or to modify or remove one it does not hold
    ev            \* the last operation performed

vars == <<phase, dir, pathExists, errno, server_fd, clients, num_clients,
          reg_set, open, backlog, stack, attrs, outstanding, nreq, naccept,
          misuse, ev>>

ZeroClient == [fd |-> NoFd, is_response_pending |-> FALSE,
               pending_response |-> ZeroMsg]

\* The record of the last operation: what was done (op), on which pool slot
\* (for ctl_destroy: with how many clients connected) and descriptor, the attribute name of the request or the failing step of
\* ctl_create (name), whether the pool was full before the step (full), the
\* buffer handed to send() (sent), and for ctl_destroy the owner argument,
\* the result of getsockname (rc), errno on entry (entry_errno) and in name
\* whether unlink was called and succeeded.
NoEv == [op |-> "none", slot |-> 0, fd |-> NoFd, name |-> "", full |-> FALSE,
         sent |-> ZeroMsg, owner |-> FALSE, rc |-> 0, entry_errno |-> "0"]

Ev(op, slot, fd, name) ==
    [NoEv EXCEPT !.op = op, !.slot = slot, !.fd = fd, !.name = name]

LowestFree(o) == CHOOSE f \in Fds \ o : \A g \in Fds \ o : f <= g

Init ==
    /\ phase = "none"
    /\ dir \in {"missing", "notdir", "dir"}
    /\ pathExists \in BOOLEAN
    /\ errno = "0"
    /\ server_fd = NoFd
    /\ clients = [s \in 1..MAX_CLIENTS |-> ZeroClient]
    /\ num_clients = 0
    /\ reg_set = [f \in Fds |-> "NONE"]
    /\ open = {}
    /\ backlog = 0
    /\ stack = <<>>
    /\ attrs \in Tables
    /\ outstanding = [f \in Fds |-> 0]
    /\ nreq = 0
    /\ naccept = 0
    /\ misuse = FALSE
    /\ ev = NoEv

(***************************************************************************)
(* The endpoint's mutable parts as one record, so that the helpers of the  *)
(* source can be written as operators from record to record.               *)
(***************************************************************************)
Ctl == [clients |-> clients, num_clients |-> num_clients,
        reg_set |-> reg_set, open |-> open, misuse |-> misuse]

epoll_reg_set_add(c, fd, event) ==
    [c EXCEPT !.reg_set[fd] = event,
              !.misuse = @ \/ c.reg_set[fd] # "NONE"]

epoll_reg_set_mod(c, fd, event) ==
    [c EXCEPT !.reg_set[fd] = event,
              !.misuse = @ \/ c.reg_set[fd] = "NONE"]

epoll_reg_set_del(c, fd) ==
    [c EXCEPT !.reg_set[fd] = "NONE",
              !.misuse = @ \/ c.reg_set[fd] = "NONE"]

ut_close(c, fd) == [c EXCEPT !.open = @ \ {fd}]

\* remove_client that does not register the listening descriptor again.
remove_client_norearm(c, client_idx) ==
    LET rfd      == c.clients[client_idx + 1].fd
        c1       == ut_close(epoll_reg_set_del(c, rfd), rfd)
        last_idx == c.num_clients - 1
        c2       == IF client_idx # last_idx
                    THEN [c1 EXCEPT !.clients[client_idx + 1] =
                                        c.clients[last_idx + 1]]
                    ELSE c1
    IN  [c2 EXCEPT !.num_clients = @ - 1]

\* remove_client without the memcpy of the last slot into the freed one.
remove_client_nocompact(c, client_idx) ==
    LET rfd      == c.clients[client_idx + 1].fd
        c1       == ut_close(epoll_reg_set_del(c, rfd), rfd)
        c3       == IF c.num_clients = MAX_CLIENTS
                    THEN epoll_reg_set_add(c1, server_fd, "EPOLLIN")
                    ELSE c1
    IN  [c3 EXCEPT !.num_clients = @ - 1]

\* remove_client that leaves the descriptor open.
remove_client_noclose(c, client_idx) ==
    LET rfd      == c.clients[client_idx + 1].fd
        c1       == epoll_reg_set_del(c, rfd)
        last_idx == c.num_clients - 1
        c2       == IF client_idx # last_idx
                    THEN [c1 EXCEPT !.clients[client_idx + 1] =
                                        c.clients[last_idx + 1]]
                    ELSE c1
        c3       == IF c.num_clients = MAX_CLIENTS
                    THEN epoll_reg_set_add(c2, server_fd, "EPOLLIN")
                    ELSE c2
    IN  [c3 EXCEPT !.num_clients = @ - 1]

\* remove_client that registers the listening descriptor whatever the size
\* of the pool.
remove_client_rearm(c, client_idx) ==
    LET rfd      == c.clients[client_idx + 1].fd
        c1       == ut_close(epoll_reg_set_del(c, rfd), rfd)
        last_idx == c.num_clients - 1
        c2       == IF client_idx # last_idx
                    THEN [c1 EXCEPT !.clients[client_idx + 1] =
                                        c.clients[last_idx + 1]]
                    ELSE c1
        c3       == epoll_reg_set_add(c2, server_fd, "EPOLLIN")
    IN  [c3 EXCEPT !.num_clients = @ - 1]

\* remove_client that reads the descriptor to deregister and close from the
\* slot after the last client has been copied into it.
remove_client_latefd(c, client_idx) ==
    LET last_idx == c.num_clients - 1
        rfd      == c.clients[last_idx + 1].fd
        c1       == ut_close(epoll_reg_set_del(c, rfd), rfd)
        c2       == IF client_idx # last_idx
                    THEN [c1 EXCEPT !.clients[client_idx + 1] =
                                        c.clients[last_idx + 1]]
                    ELSE c1
        c3       == IF c.num_clients = MAX_CLIENTS
                    THEN epoll_reg_set_add(c2, server_fd, "EPOLLIN")
                    ELSE c2
    IN  [c3 EXCEPT !.num_clients = @ - 1]

\* remove_client(): client_idx counts from 0 as in the source.
remove_client(c, client_idx) ==
    LET rfd      == c.clients[client_idx + 1].fd
        c1       == ut_close(epoll_reg_set_del(c, rfd), rfd)
        last_idx == c.num_clients - 1
        c2       == IF client_idx # last_idx
                    THEN [c1 EXCEPT !.clients[client_idx + 1] =
                                        c.clients[last_idx + 1]]
                    ELSE c1
        c3       == IF c.num_clients = MAX_CLIENTS
                    THEN epoll_reg_set_add(c2, server_fd, "EPOLLIN")
                    ELSE c2
    IN  [c3 EXCEPT !.num_clients = @ - 1]

(***************************************************************************)
(* ctl_create / create_ux                                                  *)
(***************************************************************************)
\* create_ux(): d is the state of the control directory, path whether a
\* file exists at the derived path, and sock_ok, bind_ok, listen_ok the
\* outcomes of socket(), bind() and listen().  The result is the descriptor
\* returned (-1 on failure), the descriptors open and the path afterwards,
\* the step that failed and errno as the last call left it.
err(st, step, e) == [st EXCEPT !.rc = -1, !.step = step, !.errno = e]

err_close(st, fd, step, e) == err([st EXCEPT !.open = @ \ {fd}], step, e)

\* The err_unlink path without the unlink.
err_unlink_keep(st, fd, step, e) == err_close(st, fd, step, e)

err_unlink(st, fd, step, e) ==
    err_close([st EXCEPT !.path = FALSE], fd, step, e)

create_ux(d, path, o, e0, sock_ok, bind_ok, listen_ok) ==
    LET st0 == [rc |-> -1, open |-> o, path |-> path, step |-> "ok",
                errno |-> e0]
        fd  == LowestFree(o)
        \* unlink(addr.sun_path) of a stale file
        st1 == [st0 EXCEPT !.path = FALSE,
                           !.errno = IF path THEN e0 ELSE "ENOENT"]
        \* socket()
        st2 == [st1 EXCEPT !.open = @ \cup {fd}]
        \* bind() creates the file
        st3 == [st2 EXCEPT !.path = TRUE]
    IN  IF d = "missing" THEN err(st0, "stat", "ENOENT")
        ELSE IF d # "dir" THEN err(st0, "notdir", e0)
        ELSE IF ~sock_ok THEN err(st1, "socket", "EMFILE")
        ELSE IF ~bind_ok THEN err_close(st2, fd, "bind", "EADDRINUSE")
        ELSE IF ~listen_ok THEN err_unlink(st3, fd, "listen", "EADDRINUSE")
        ELSE [st3 EXCEPT !.rc = fd]

\* UT_RESTORE_ERRNO_DC left out: errno stays as the last call left it.
ut_restore_errno_skip(saved, current) == current

\* UT_RESTORE_ERRNO_DC: errno is set back to the value saved on entry.
ut_restore_errno(saved, current) == saved

ctl_create ==
    /\ phase = "none"
    /\ \E sock_ok \in BOOLEAN, bind_ok \in BOOLEAN, listen_ok \in BOOLEAN :
         LET r == create_ux(dir, pathExists, open, errno,
                            sock_ok, bind_ok, listen_ok)
         IN  /\ \* outcomes of calls that are not reached are dropped
                CASE r.step \in {"stat", "notdir", "socket"} ->
                        bind_ok /\ listen_ok /\ (r.step = "socket" \/ sock_ok)
                  [] r.step = "bind" -> listen_ok
                  [] OTHER -> TRUE
             /\ ev' = Ev("create", 0, IF r.rc < 0 THEN NoFd ELSE r.rc, r.step)
             /\ pathExists' = r.path
             /\ open' = r.open
             /\ errno' = ut_restore_errno(errno, r.errno)
             /\ IF r.rc < 0
                THEN \* return NULL
                     /\ phase' = "failed"
                     /\ UNCHANGED <<server_fd, clients, num_clients, reg_set>>
                ELSE \* ut_calloc, epoll_reg_set_init, epoll_reg_set_add
                     /\ phase' = "live"
                     /\ server_fd' = r.rc
                     /\ clients' = [s \in 1..MAX_CLIENTS |-> ZeroClient]
                     /\ num_clients' = 0
                     /\ reg_set' = [[f \in Fds |-> "NONE"]
                                       EXCEPT ![r.rc] = "EPOLLIN"]
    /\ UNCHANGED <<dir, backlog, stack, attrs, outstanding, nreq, naccept,
                   misuse>>

(***************************************************************************)
(* Connections arriving at the listening socket (the peers)                *)
(***************************************************************************)
Connect ==
    /\ phase = "live"
    /\ backlog < MaxPending
    /\ backlog' = backlog + 1
    /\ UNCHANGED <<phase, dir, pathExists, errno, server_fd, clients,
                   num_clients, reg_set, open, stack, attrs, outstanding,
                   nreq, naccept, misuse, ev>>

(***************************************************************************)
(* ctl_process                                                             *)
(***************************************************************************)
Requests ==
    {[type |-> "get_attr_req", name |-> n] : n \in RequestNames}
    \cup {[type |-> "get_all_attr_req", name |-> ""],
          [type |-> "get_attr_cfm", name |-> ""]}

\* The activation record of a call of ctl_process: the loop index i and
\* the errno saved by UT_SAVE_ERRNO.  short_full records that this call has
\* read a message of the wrong size from a client while the pool was full,
\* interrupted that it has removed a client and called ctl_process again.
Frame(e) == [i |-> 0, saved_errno |-> e, short_full |-> FALSE,
             interrupted |-> FALSE]

\* Entry of a top-level call: UT_SAVE_ERRNO and i = 0.
ctl_process_call ==
    /\ phase = "live"
    /\ stack = <<>>
    /\ stack' = <<Frame(errno)>>
    /\ ev' = Ev("process", 0, NoFd, "")
    /\ naccept' = 0
    /\ UNCHANGED <<phase, dir, pathExists, errno, server_fd, clients,
                   num_clients, reg_set, open, backlog, attrs, outstanding,
                   nreq, misuse>>

Top == stack[Len(stack)]

\* process_client without the tests for EAGAIN: every failed send or recv
\* returns -1.
process_client_noagain(c, i, out, req) ==
    LET client == c.clients[i + 1]
    IN  IF client.is_response_pending
        THEN CASE out = "eagain" ->
                    [rc |-> -1, c |-> c, op |-> "send_eagain", aborted |-> FALSE]
               [] out = "err" ->
                    [rc |-> -1, c |-> c, op |-> "send_err", aborted |-> FALSE]
               [] OTHER ->
                    [rc |-> 0,
                     c |-> epoll_reg_set_mod(
                             [c EXCEPT
                                !.clients[i + 1].is_response_pending = FALSE],
                             client.fd, "EPOLLIN"),
                     op |-> "send_ok", aborted |-> FALSE]
        ELSE CASE out = "eagain" ->
                    [rc |-> -1, c |-> c, op |-> "recv_eagain", aborted |-> FALSE]
               [] out = "err" ->
                    [rc |-> -1, c |-> c, op |-> "recv_err", aborted |-> FALSE]
               [] out = "eof" ->
                    [rc |-> -1, c |-> c, op |-> "recv_eof", aborted |-> FALSE]
               [] out = "short" ->
                    [rc |-> -1, c |-> c, op |-> "recv_short", aborted |-> FALSE]
               [] OTHER ->
                    LET c1 == epoll_reg_set_mod(
                                [c EXCEPT
                                   !.clients[i + 1].is_response_pending = TRUE],
                                client.fd, "EPOLLOUT")
                        res == client.pending_response
                    IN  CASE req.type = "get_attr_req" ->
                               [rc |-> 0,
                                c |-> [c1 EXCEPT
                                        !.clients[i + 1].pending_response =
                                          process_get_attr(attrs, req.name, res)],
                                op |-> "get_attr", aborted |-> FALSE]
                          [] req.type = "get_all_attr_req" ->
                               LET r == process_get_all_attr(attrs, res)
                               IN  [rc |-> 0,
                                    c |-> [c1 EXCEPT
                                        !.clients[i + 1].pending_response =
                                          r.msg],
                                    op |-> "get_all_attr",
                                    aborted |-> r.aborted]
                          [] OTHER ->
                               [rc |-> -1,
                                c |-> [c1 EXCEPT
                                   !.clients[i + 1].is_response_pending = FALSE],
                                op |-> "recv_unknown", aborted |-> FALSE]

\* process_client() on slot i (from 0): the result code, the endpoint
\* afterwards, the name of what happened, the buffer handed to send() and
\* whether an assertion failed.
process_client(c, i, out, req) ==
    LET client == c.clients[i + 1]
    IN  IF client.is_response_pending
        THEN CASE out = "eagain" ->
                    [rc |-> 0, c |-> c, op |-> "send_eagain", aborted |-> FALSE]
               [] out = "err" ->
                    [rc |-> -1, c |-> c, op |-> "send_err", aborted |-> FALSE]
               [] OTHER ->
                    [rc |-> 0,
                     c |-> epoll_reg_set_mod(
                             [c EXCEPT
                                !.clients[i + 1].is_response_pending = FALSE],
                             client.fd, "EPOLLIN"),
                     op |-> "send_ok", aborted |-> FALSE]
        ELSE CASE out = "eagain" ->
                    [rc |-> 0, c |-> c, op |-> "recv_eagain", aborted |-> FALSE]
               [] out = "err" ->
                    [rc |-> -1, c |-> c, op |-> "recv_err", aborted |-> FALSE]
               [] out = "eof" ->
                    [rc |-> -1, c |-> c, op |-> "recv_eof", aborted |-> FALSE]
               [] out = "short" ->
                    [rc |-> -1, c |-> c, op |-> "recv_short", aborted |-> FALSE]
               [] OTHER ->
                    LET c1 == epoll_reg_set_mod(
                                [c EXCEPT
                                   !.clients[i + 1].is_response_pending = TRUE],
                                client.fd, "EPOLLOUT")
                        res == client.pending_response
                    IN  CASE req.type = "get_attr_req" ->
                               [rc |-> 0,
                                c |-> [c1 EXCEPT
                                        !.clients[i + 1].pending_response =
                                          process_get_attr(attrs, req.name, res)],
                                op |-> "get_attr", aborted |-> FALSE]
                          [] req.type = "get_all_attr_req" ->
                               LET r == process_get_all_attr(attrs, res)
                               IN  [rc |-> 0,
                                    c |-> [c1 EXCEPT
                                        !.clients[i + 1].pending_response =
                                          r.msg],
                                    op |-> "get_all_attr",
                                    aborted |-> r.aborted]
                          [] OTHER ->
                               [rc |-> -1,
                                c |-> [c1 EXCEPT
                                   !.clients[i + 1].is_response_pending = FALSE],
                                op |-> "recv_unknown", aborted |-> FALSE]

SendOps == {"send_ok", "send_eagain", "send_err"}

\* One iteration of the for loop of ctl_process in the innermost call.
ctl_process_iter ==
    /\ phase = "live"
    /\ stack # <<>>
    /\ Top.i < num_clients
    /\ \E out \in {"ok", "eagain", "err", "eof", "short"}, req \in Requests :
         LET i   == Top.i
             cl  == clients[i + 1]
             r   == process_client(Ctl, i, out, req)
             c2  == IF r.rc < 0 THEN remove_client(r.c, i) ELSE r.c
         IN  \* outcomes that do not apply to the branch taken are dropped
             /\ cl.is_response_pending => out \in {"ok", "eagain", "err"}
             /\ (cl.is_response_pending \/ out # "ok")
                    => req = [type |-> "get_all_attr_req", name |-> ""]
             /\ (~cl.is_response_pending /\ out = "ok") => nreq < MaxRequests
             /\ nreq' = IF ~cl.is_response_pending /\ out = "ok"
                        THEN nreq + 1 ELSE nreq
             /\ IF r.aborted
                THEN /\ phase' = "aborted"
                     /\ UNCHANGED <<clients, num_clients, reg_set, open,
                                    stack, outstanding, misuse>>
                ELSE /\ phase' = phase
                     /\ clients' = c2.clients
                     /\ num_clients' = c2.num_clients
                     /\ reg_set' = c2.reg_set
                     /\ open' = c2.open
                     /\ misuse' = c2.misuse
                     /\ stack' =
                          IF r.rc < 0
                          THEN \* remove_client(ctl, i); ctl_process(ctl);
                               Append([stack EXCEPT
                                          ![Len(stack)].short_full =
                                             @ \/ (r.op = "recv_short" /\
                                                   num_clients = MAX_CLIENTS),
                                          ![Len(stack)].interrupted = TRUE],
                                      Frame(errno))
                          ELSE [stack EXCEPT ![Len(stack)].i = @ + 1]
                     /\ outstanding' =
                          [outstanding EXCEPT ![cl.fd] =
                             CASE r.rc < 0 -> 0
                               [] r.op \in {"get_attr", "get_all_attr"} -> @ + 1
                               [] r.op = "send_ok" -> @ - 1
                               [] OTHER -> @]
             /\ ev' = [Ev(r.op, i, cl.fd, req.name) EXCEPT
                       !.full = (num_clients = MAX_CLIENTS),
                       !.sent = IF r.op \in SendOps
                                THEN cl.pending_response ELSE ZeroMsg]
    \* UT_RESTORE_ERRNO after send/recv
    /\ UNCHANGED <<dir, pathExists, errno, server_fd, backlog, attrs,
                   naccept>>

\* accept_client without nclient->is_response_pending = false.
accept_client_stale(c, out) ==
    IF backlog = 0 \/ out # "ok" THEN c
    ELSE LET client_fd == LowestFree(c.open)
             c1 == epoll_reg_set_add([c EXCEPT !.open = @ \cup {client_fd}],
                                     client_fd, "EPOLLIN")
             c2 == [c1 EXCEPT
                      !.clients[c.num_clients + 1].fd = client_fd,
                      !.num_clients = @ + 1]
         IN  IF c2.num_clients = MAX_CLIENTS
             THEN epoll_reg_set_del(c2, server_fd)
             ELSE c2

\* accept_client that leaves the listening descriptor registered when the
\* pool becomes full.
accept_client_nodel(c, out) ==
    IF backlog = 0 \/ out # "ok" THEN c
    ELSE LET client_fd == LowestFree(c.open)
             c1 == epoll_reg_set_add([c EXCEPT !.open = @ \cup {client_fd}],
                                     client_fd, "EPOLLIN")
         IN  [c1 EXCEPT
                !.clients[c.num_clients + 1].fd = client_fd,
                !.clients[c.num_clients + 1].is_response_pending = FALSE,
                !.num_clients = @ + 1]

\* accept_client that registers the new descriptor for write-interest.
accept_client_out(c, out) ==
    IF backlog = 0 \/ out # "ok" THEN c
    ELSE LET client_fd == LowestFree(c.open)
             c1 == epoll_reg_set_add([c EXCEPT !.open = @ \cup {client_fd}],
                                     client_fd, "EPOLLOUT")
             c2 == [c1 EXCEPT
                      !.clients[c.num_clients + 1].fd = client_fd,
                      !.clients[c.num_clients + 1].is_response_pending = FALSE,
                      !.num_clients = @ + 1]
         IN  IF c2.num_clients = MAX_CLIENTS
             THEN epoll_reg_set_del(c2, server_fd)
             ELSE c2

\* accept_client()
accept_client(c, out) ==
    IF backlog = 0 \/ out # "ok" THEN c
    ELSE LET client_fd == LowestFree(c.open)
             c1 == epoll_reg_set_add([c EXCEPT !.open = @ \cup {client_fd}],
                                     client_fd, "EPOLLIN")
             c2 == [c1 EXCEPT
                      !.clients[c.num_clients + 1].fd = client_fd,
                      !.clients[c.num_clients + 1].is_response_pending = FALSE,
                      !.num_clients = @ + 1]
         IN  IF c2.num_clients = MAX_CLIENTS
             THEN epoll_reg_set_del(c2, server_fd)
             ELSE c2

\* The accept at the end of ctl_process without the capacity check.
ctl_process_accept_always(c, out) == accept_client(c, out)

\* Lines 331-332: if (ctl->num_clients < MAX_CLIENTS) accept_client(ctl);
ctl_process_accept(c, out) ==
    IF c.num_clients < MAX_CLIENTS THEN accept_client(c, out) ELSE c

\* The end of a call of ctl_process whose caller repeats the iteration it
\* was in, as if the loop index were not advanced after the restart.
ctl_process_return_noinc ==
    /\ phase = "live"
    /\ stack # <<>>
    /\ Top.i >= num_clients
    /\ \E out \in {"ok", "eagain", "err"} :
         LET c2   == ctl_process_accept(Ctl, out)
             took == c2.num_clients > num_clients
             tried == num_clients < MAX_CLIENTS /\ backlog > 0
         IN  /\ ~tried => out = "ok"
             /\ clients' = c2.clients
             /\ num_clients' = c2.num_clients
             /\ reg_set' = c2.reg_set
             /\ open' = c2.open
             /\ misuse' = c2.misuse
             /\ backlog' = IF took THEN backlog - 1 ELSE backlog
             /\ naccept' = IF took /\ naccept <= 1 THEN naccept + 1
                           ELSE naccept
             /\ outstanding' =
                  IF took
                  THEN [outstanding EXCEPT ![LowestFree(open)] = 0]
                  ELSE outstanding
             /\ ev' = IF took
                      THEN Ev("accept", num_clients, LowestFree(open), out)
                      ELSE Ev("return", 0, NoFd, IF tried THEN out ELSE "")
             /\ errno' = ut_restore_errno(Top.saved_errno,
                            IF tried /\ ~took THEN "EAGAIN" ELSE errno)
    /\ stack' = SubSeq(stack, 1, Len(stack) - 1)
    /\ UNCHANGED <<phase, dir, pathExists, server_fd, attrs, nreq>>

\* The end of a call of ctl_process: the loop condition fails, one accept
\* is attempted if there is room, errno is restored and the call returns.
\* The caller, if any, is inside its loop and moves on to its next index.
ctl_process_return ==
    /\ phase = "live"
    /\ stack # <<>>
    /\ Top.i >= num_clients
    /\ \E out \in {"ok", "eagain", "err"} :
         LET c2   == ctl_process_accept(Ctl, out)
             took == c2.num_clients > num_clients
             tried == num_clients < MAX_CLIENTS /\ backlog > 0
         IN  /\ ~tried => out = "ok"
             /\ clients' = c2.clients
             /\ num_clients' = c2.num_clients
             /\ reg_set' = c2.reg_set
             /\ open' = c2.open
             /\ misuse' = c2.misuse
             /\ backlog' = IF took THEN backlog - 1 ELSE backlog
             /\ naccept' = IF took /\ naccept <= 1 THEN naccept + 1
                           ELSE naccept
             /\ outstanding' =
                  IF took
                  THEN [outstanding EXCEPT ![LowestFree(open)] = 0]
                  ELSE outstanding
             /\ ev' = IF took
                      THEN Ev("accept", num_clients, LowestFree(open), out)
                      ELSE Ev("return", 0, NoFd, IF tried THEN out ELSE "")
             /\ errno' = ut_restore_errno(Top.saved_errno,
                            IF tried /\ ~took THEN "EAGAIN" ELSE errno)
    /\ stack' = LET rest == SubSeq(stack, 1, Len(stack) - 1)
                IN  IF rest = <<>> THEN rest
                    ELSE [rest EXCEPT ![Len(rest)].i = @ + 1]
    /\ UNCHANGED <<phase, dir, pathExists, server_fd, attrs, nreq>>

(***************************************************************************)
(* ctl_destroy                                                             *)
(***************************************************************************)
\* The loop of ctl_destroy with "if" in place of "while".
remove_all_once(c) ==
    IF c.num_clients > 0 THEN remove_client(c, 0) ELSE c

RECURSIVE remove_all(_)
\* while (ctl->num_clients > 0) remove_client(ctl, 0);
remove_all(c) ==
    IF c.num_clients > 0 THEN remove_all(remove_client(c, 0)) ELSE c

\* ctl_destroy(ctl, owner).  entry_errno is the caller's errno when it
\* calls (the caller has run, and may have failed, since the last entry
\* point returned); getsockname_ok and unlink_ok are the outcomes of those
\* calls.
ctl_destroy ==
    /\ phase = "live"
    /\ stack = <<>>
    /\ \E owner \in BOOLEAN, entry_errno \in {"0", "EPIPE"},
          getsockname_ok \in BOOLEAN, unlink_ok \in BOOLEAN :
         LET c1 == remove_all(Ctl)
             c2 == ut_close(c1, server_fd)
             rc == IF getsockname_ok THEN 0 ELSE -1
             unlinks == rc = 0 /\ owner
             \* errno as left by the calls made during teardown
             clobbered == IF unlinks /\ ~unlink_ok THEN "EACCES"
                          ELSE IF ~getsockname_ok THEN "ENOBUFS"
                          ELSE entry_errno
         IN  /\ ~unlinks => unlink_ok
             \* ut_free(ctl): the client slots are gone with the endpoint
             /\ clients' = [s \in 1..MAX_CLIENTS |-> ZeroClient]
             /\ num_clients' = c2.num_clients
             /\ reg_set' = c2.reg_set
             /\ open' = c2.open
             /\ misuse' = c2.misuse
             /\ pathExists' = IF unlinks /\ unlink_ok THEN FALSE
                              ELSE pathExists
             /\ errno' = ut_restore_errno(entry_errno, clobbered)
             /\ ev' = [Ev("destroy", num_clients, server_fd,
                          IF ~unlinks THEN "" ELSE
                          IF unlink_ok THEN "unlinked" ELSE "unlink_failed")
                         EXCEPT !.owner = owner,
                                !.rc = rc,
                                !.entry_errno = entry_errno]
             /\ outstanding' = [f \in Fds |-> 0]
    /\ phase' = "destroyed"
    /\ backlog' = 0
    /\ UNCHANGED <<dir, server_fd, stack, attrs, nreq, naccept>>

Next ==
    \/ ctl_create
    \/ Connect
    \/ ctl_process_call
    \/ ctl_process_iter
    \/ ctl_process_return
    \/ ctl_destroy

Spec == Init /\ [][Next]_vars

TypeOK ==
    /\ phase \in {"none", "live", "failed", "destroyed", "aborted"}
    /\ num_clients \in 0..MAX_CLIENTS
    /\ backlog \in 0..MaxPending
    /\ misuse \in BOOLEAN

(***************************************************************************)
(* Properties                                                              *)
(***************************************************************************)
\* The response buffer of the client the last operation was about.
Resp == clients[ev.slot + 1].pending_response

HasSecret(msg) ==
    \E k \in 1..CTL_PROTO_MAX_ATTRS, j \in 1..CTL_ATTR_VALUE_MAX :
        msg.attrs[k].any_value[j] \in SecretBytes

\* The client of the last operation is still connected, in the same slot.
StillConnected ==
    /\ ev.slot < num_clients
    /\ clients[ev.slot + 1].fd = ev.fd
    /\ ev.fd \in open

\* The attributes of the table that are not the sensitive one, in the order
\* of enumeration.
NonSensitive(table) ==
    SelectSeq(table, LAMBDA e : e.name # XCM_ATTR_TLS_KEY)

Prefix(value, n) == [j \in 1..n |-> value[j]]

\* C1: no buffer handed to send() (whether the send succeeds, would block or
\* fails) contains a byte of the value of the sensitive attribute, in any of
\* its value fields.  The bytes of the sensitive value are distinct from all
\* other bytes of the model, so this is the single-run form of "the sent
\* responses do not depend on the sensitive value".
C1_NoSecretSent == ev.op \in SendOps => ~HasSecret(ev.sent)

\* A response to a request for the sensitive attribute, which the table
\* holds, has been sent.
C1_Witness ==
    /\ ev.op = "send_ok"
    /\ ev.sent.type = "get_attr_rej"
    /\ ev.sent.rej_errno = "EACCES"
    /\ HasAttr(attrs, XCM_ATTR_TLS_KEY)

\* C2: after a GetAttr request for the sensitive attribute has been handled,
\* the pending response is GetAttrRej with EACCES, the value bytes of its
\* attribute are all zero, and the client is still connected with the
\* response pending, whether or not the table holds the attribute.
C2_SensitiveRejected ==
    (ev.op = "get_attr" /\ ev.name = XCM_ATTR_TLS_KEY) =>
        /\ Resp.type = "get_attr_rej"
        /\ Resp.rej_errno = "EACCES"
        /\ \A j \in 1..CTL_ATTR_VALUE_MAX : Resp.attrs[1].any_value[j] = 0
        /\ StillConnected
        /\ clients[ev.slot + 1].is_response_pending

\* The sensitive attribute was asked for and its lookup succeeded.
C2_Witness ==
    /\ ev.op = "get_attr"
    /\ ev.name = XCM_ATTR_TLS_KEY
    /\ HasAttr(attrs, XCM_ATTR_TLS_KEY)

\* C3: the response built for a GetAllAttr request has one entry per
\* non-sensitive attribute of the table, in enumeration order, with the
\* name, type, length and bytes of the table, and none for the sensitive
\* attribute, whatever the buffer held before.
C3_GetAllEntries ==
    (ev.op = "get_all_attr" /\ phase = "live") =>
        LET want == NonSensitive(attrs)
        IN  /\ Resp.attrs_len = Len(want)
            /\ \A k \in 1..Resp.attrs_len :
                 /\ k <= CTL_PROTO_MAX_ATTRS
                 /\ Resp.attrs[k].name # XCM_ATTR_TLS_KEY
                 /\ Resp.attrs[k].name = want[k].name
                 /\ Resp.attrs[k].value_type = want[k].type
                 /\ Resp.attrs[k].value_len = Len(want[k].value)
                 /\ Prefix(Resp.attrs[k].any_value, Len(want[k].value))
                        = want[k].value

\* A table with the sensitive attribute and others was enumerated into a
\* buffer that held an earlier GetAttr response.
C3_Witness ==
    /\ ev.op = "get_all_attr"
    /\ phase = "live"
    /\ HasAttr(attrs, XCM_ATTR_TLS_KEY)
    /\ Resp.attrs_len >= 1
    /\ Resp.type \in {"get_attr_cfm", "get_attr_rej"}

\* C4: a GetAttr request for a non-sensitive attribute the table holds
\* yields GetAttrCfm with the type, length and bytes of the table.
C4_GetAttrRoundTrip ==
    (ev.op = "get_attr" /\ ev.name # XCM_ATTR_TLS_KEY
        /\ HasAttr(attrs, ev.name)) =>
        LET want == AttrOf(attrs, ev.name)
        IN  /\ Resp.type = "get_attr_cfm"
            /\ Resp.attrs[1].value_type = want.type
            /\ Resp.attrs[1].value_len = Len(want.value)
            /\ Prefix(Resp.attrs[1].any_value, Len(want.value)) = want.value

\* A value was returned through a buffer whose first entry held the longer
\* value of another attribute.
C4_Witness ==
    /\ ev.op = "get_attr"
    /\ ev.name = "xcm.type"
    /\ HasAttr(attrs, "xcm.type")
    /\ Resp.attrs[1].value_len = 1
    /\ Resp.attrs[1].any_value[2] = 1

\* The descriptors of connected clients.
ClientFds == open \ {server_fd}

\* C5: there are never more than MAX_CLIENTS connected clients, and a step
\* that starts with MAX_CLIENTS connected opens no descriptor and takes no
\* connection from the listening socket: a waiting connection is accepted
\* only once a client has been removed.
C5_PoolBound ==
    [][ /\ num_clients' \in 0..MAX_CLIENTS
        /\ phase' = "live" => Cardinality(ClientFds') = num_clients'
        /\ num_clients = MAX_CLIENTS =>
              /\ open' \subseteq open
              /\ backlog' >= backlog \/ phase' # "live" ]_vars

\* A call of ctl_process has returned without accepting although a
\* connection is waiting, because two clients are connected.
C5_Witness ==
    /\ phase = "live"
    /\ stack = <<>>
    /\ ev.op = "return"
    /\ num_clients = MAX_CLIENTS
    /\ backlog > 0

RecvOps == {"recv_eagain", "recv_err", "recv_eof", "recv_short",
            "recv_unknown", "get_attr", "get_all_attr"}

\* A step of process_client: the loop index moved or a call was pushed.
IsIter == stack' # stack /\ ev'.op \in RecvOps \cup SendOps

\* C6: per client, requests read and responses sent alternate, starting with
\* a request: a receive is attempted only when every request read from that
\* descriptor has had its response sent, and a send only when one response
\* is outstanding.
C6_Alternation ==
    [][ /\ \A f \in Fds : outstanding'[f] \in {0, 1}
        /\ IsIter =>
             /\ ev'.op \in RecvOps => outstanding[ev'.fd] = 0
             /\ ev'.op \in SendOps => outstanding[ev'.fd] = 1 ]_vars

\* A send of a pending response would block, so that the response is still
\* outstanding and the client's next request is not read.
C6_Witness ==
    /\ ev.op = "send_eagain"
    /\ StillConnected
    /\ outstanding[ev.fd] = 1
    /\ clients[ev.slot + 1].is_response_pending

\* The client of the last operation has been closed, deregistered and
\* dropped from the pool (as seen in the step that removed it).
RemovedNow ==
    /\ ev'.fd \notin open'
    /\ reg_set'[ev'.fd] = "NONE"
    /\ num_clients' = num_clients - 1
    /\ \A s \in 1..num_clients' : clients'[s].fd # ev'.fd

\* A call of ctl_process that has read a wrong-size message from a full pool
\* returns.
ReturnAfterShort ==
    /\ stack # <<>>
    /\ Top.short_full
    /\ Len(stack') < Len(stack)

\* C7 as stated: a wrong-size message gets the client closed and removed in
\* the step that reads it, and if the pool was full the listening descriptor
\* is registered for read-interest when that call of ctl_process returns.
C7_Original ==
    [][ /\ (IsIter /\ ev'.op = "recv_short") => RemovedNow
        /\ ReturnAfterShort => reg_set'[server_fd] = "EPOLLIN" ]_vars

\* C7 as amended: the client is closed and removed in the step that reads
\* the message and, if the pool was full, that removal registers the
\* listening descriptor for read-interest; when the call returns the
\* listening descriptor is registered exactly if fewer than MAX_CLIENTS
\* clients are connected (a connection accepted later in the same call fills
\* the pool again).
C7_Amended ==
    [][ /\ (IsIter /\ ev'.op = "recv_short") =>
              /\ RemovedNow
              /\ num_clients = MAX_CLIENTS => reg_set'[server_fd] = "EPOLLIN"
        /\ ReturnAfterShort =>
              (reg_set'[server_fd] = "EPOLLIN" <=> num_clients' < MAX_CLIENTS)
      ]_vars

\* A wrong-size message was read while two clients were connected and a
\* connection is waiting: the client is gone and the listener registered.
C7_Witness ==
    /\ ev.op = "recv_short"
    /\ ev.full
    /\ num_clients = MAX_CLIENTS - 1
    /\ ev.fd \notin open
    /\ reg_set[server_fd] = "EPOLLIN"
    /\ backlog > 0

C9_ErrnoPreserved == ev.op = "destroy" => errno = ev.entry_errno

\* The caller entered with an error pending and a teardown call failed.
C9_Witness ==
    /\ ev.op = "destroy"
    /\ ev.entry_errno = "EPIPE"
    /\ ev.rc = -1 \/ ev.name = "unlink_failed"

\* C10: a failing ctl_create returns no endpoint, leaves open no descriptor
\* and registers none; if the directory check failed the path is as it was,
\* and otherwise no file is left at the path.
C10_CreateFailure ==
    [][ (phase = "none" /\ ev'.op = "create" /\ ev'.name # "ok") =>
            /\ phase' = "failed"
            /\ server_fd' = NoFd
            /\ open' = open
            /\ reg_set' = reg_set
            /\ \A f \in Fds : reg_set'[f] = "NONE"
            /\ IF ev'.name \in {"stat", "notdir"}
               THEN pathExists' = pathExists
               ELSE ~pathExists' ]_vars

\* listen failed after bind had created the file.
C10_Witness ==
    /\ phase = "failed"
    /\ ev.op = "create"
    /\ ev.name = "listen"

\* The endpoint exists and no entry point is running.
BetweenCalls == phase = "live" /\ stack = <<>>

\* C11: between calls of the entry points of a live endpoint the listening
\* descriptor is registered for read-interest exactly if fewer than
\* MAX_CLIENTS clients are connected.
C11_ListenerRegistered ==
    BetweenCalls =>
        /\ reg_set[server_fd] \in {"EPOLLIN", "NONE"}
        /\ reg_set[server_fd] = "EPOLLIN" <=> num_clients < MAX_CLIENTS

\* A call of ctl_process has accepted the second client and returned: the
\* listening descriptor is no longer registered.
C11_Witness ==
    /\ BetweenCalls
    /\ ev.op = "accept"
    /\ num_clients = MAX_CLIENTS
    /\ reg_set[server_fd] = "NONE"

\* C12: the pending response has the type tag of the variant that answers
\* the request: get_all_attr_cfm after a GetAllAttr request, get_attr_cfm or
\* get_attr_rej after a GetAttr request.
C12_ResponseType ==
    /\ (ev.op = "get_all_attr" /\ phase = "live") =>
            Resp.type = "get_all_attr_cfm"
    /\ ev.op = "get_attr" => Resp.type \in {"get_attr_cfm", "get_attr_rej"}

\* The error code of a failed lookup of a name in a table.
LookupErrno(table, name) ==
    IF ~HasAttr(table, name) THEN "ENOENT" ELSE "EOVERFLOW"

\* C13: a GetAttr request for a non-sensitive attribute that the table does
\* not hold queues get_attr_rej with the error code of the failed lookup,
\* and the client stays connected with that response pending.
C13_LookupFailure ==
    (ev.op = "get_attr" /\ ev.name # XCM_ATTR_TLS_KEY
        /\ ~HasAttr(attrs, ev.name)) =>
        /\ Resp.type = "get_attr_rej"
        /\ Resp.rej_errno = LookupErrno(attrs, ev.name)
        /\ StillConnected
        /\ clients[ev.slot + 1].is_response_pending
        /\ reg_set[ev.fd] = "EPOLLOUT"

\* A lookup failed for the second request of the behaviour, so that the
\* buffer or the pool has been used before.
C13_Witness ==
    /\ ev.op = "get_attr"
    /\ ev.name = "xcm.service"
    /\ ~HasAttr(attrs, "xcm.service")
    /\ Resp.rej_errno = "ENOENT"
    /\ nreq = 2

\* A step of ctl_process that removes the client it has just processed.
IsRemoval == IsIter /\ num_clients' = num_clients - 1

\* C14: a removal leaves every other connected client as it was: it is
\* still in the pool with the same descriptor, response-pending flag and
\* pending response, its descriptor is open and its registered interest is
\* unchanged; only the last client may have moved, into the freed slot.
C14_OthersUnchanged ==
    [][ IsRemoval =>
          \A s \in 1..num_clients :
             s # ev'.slot + 1 =>
                /\ \E t \in 1..num_clients' : clients'[t] = clients[s]
                /\ clients[s].fd \in open'
                /\ reg_set'[clients[s].fd] = reg_set[clients[s].fd]
                /\ s # num_clients => clients'[s] = clients[s] ]_vars

\* The client in the first of two occupied slots was removed and the other
\* client, which has a response pending, now occupies that slot.
C14_Witness ==
    /\ ev.op \in {"recv_err", "recv_eof", "recv_short", "recv_unknown",
                  "send_err"}
    /\ ev.full
    /\ ev.slot = 0
    /\ num_clients = 1
    /\ clients[1].is_response_pending
    /\ reg_set[clients[1].fd] = "EPOLLOUT"

\* The events for which process_client returns -1 without a response.
FatalOps == {"recv_eof", "recv_err", "send_err", "recv_unknown"}

\* C15: a client whose receive returns 0, whose receive or send fails with
\* an error other than EAGAIN, or whose request has an unknown type tag is
\* deregistered, closed and dropped from the pool in the same step of
\* ctl_process; no response is pending for it and none was handed to send()
\* for a request read in that step.
C15_FatalRemoves ==
    [][ (IsIter /\ ev'.op \in FatalOps) =>
          /\ RemovedNow
          /\ outstanding'[ev'.fd] = 0
          /\ ev'.op # "send_err" => ev'.sent = ZeroMsg
          /\ \A s \in 1..num_clients' :
                clients'[s].is_response_pending =>
                   \E t \in 1..num_clients :
                      /\ clients[t].fd = clients'[s].fd
                      /\ clients[t].is_response_pending ]_vars

\* A request with an unknown type tag was read from the only client.
C15_Witness ==
    /\ ev.op = "recv_unknown"
    /\ num_clients = 0
    /\ ev.fd \notin open
    /\ stack # <<>>

\* C16: one top-level call of ctl_process adds at most one client to the
\* pool, also when clients are removed during it.
C16_OneAccept == naccept <= 1

\* C17: after a removal the scan is restarted in a new call that starts at
\* the first slot, and once that call has returned the interrupted call
\* processes no further client and accepts no connection: it just returns.
C17_NoResume ==
    [][ /\ IsRemoval => (Len(stack') = Len(stack) + 1 /\ stack'[Len(stack')].i = 0)
        /\ (stack # <<>> /\ Top.interrupted /\ stack' # stack) =>
              ev'.op = "return" ]_vars

\* C18: no registration is leaked: a descriptor is deregistered before it is
\* closed, so a registered descriptor is always an open one, and after
\* ctl_destroy the registration set is empty.
C18_NoLeak ==
    /\ \A f \in Fds : reg_set[f] # "NONE" => f \in open
    /\ phase = "destroyed" => \A f \in Fds : reg_set[f] = "NONE"

\* C19: the endpoint never adds a descriptor that is already in the
\* registration set and never modifies or removes one that is not in it.
C19_NoMisuse == ~misuse

\* A client has been removed from a full pool, which put the listening
\* descriptor back into the registration set, inside a restarted call.
C19_Witness ==
    /\ ev.op \in FatalOps
    /\ ev.full
    /\ Len(stack) >= 2
    /\ reg_set[server_fd] = "EPOLLIN"
    /\ reg_set[ev.fd] = "NONE"
    /\ ~misuse

\* The registered interest that matches the state of the client in slot s
\* (from 1).
InterestMatches(s) ==
    reg_set[clients[s].fd] =
        IF clients[s].is_response_pending THEN "EPOLLOUT" ELSE "EPOLLIN"

\* C20: after every call of ctl_process each connected client is registered
\* for write-interest if its response-pending flag is true and for
\* read-interest otherwise; a client just accepted has response-pending false
\* and read-interest, and so has a client whose response was just sent.
C20_InterestMatchesState ==
    /\ BetweenCalls => \A s \in 1..num_clients : InterestMatches(s)
    /\ ev.op \in {"accept", "send_ok"} =>
          /\ ~clients[ev.slot + 1].is_response_pending
          /\ reg_set[ev.fd] = "EPOLLIN"
          /\ clients[ev.slot + 1].fd = ev.fd

\* A call has returned with a full pool and two requests read so far: one
\* client has its response pending and write-interest, the other has no
\* request outstanding and read-interest.
C20_Witness ==
    /\ BetweenCalls
    /\ num_clients = MAX_CLIENTS
    /\ nreq >= 2
    /\ \E s \in 1..num_clients :
          /\ clients[s].is_response_pending
          /\ reg_set[clients[s].fd] = "EPOLLOUT"
          /\ outstanding[clients[s].fd] = 1
    /\ \E s \in 1..num_clients :
          /\ ~clients[s].is_response_pending
          /\ reg_set[clients[s].fd] = "EPOLLIN"
          /\ outstanding[clients[s].fd] = 0

\* C21: when a client's recv or send returns EAGAIN the client is not
\* removed and nothing about the pool or the registrations changes; the
\* buffer that was handed to send() is still the pending response, so it is
\* retried unmodified.
C21_EagainNoChange ==
    [][ (IsIter /\ ev'.op \in {"recv_eagain", "send_eagain"}) =>
          /\ clients' = clients
          /\ num_clients' = num_clients
          /\ reg_set' = reg_set
          /\ open' = open
          /\ outstanding' = outstanding
          /\ Len(stack') = Len(stack)
          /\ ev'.op = "send_eagain" =>
                /\ clients'[ev'.slot + 1].is_response_pending
                /\ clients'[ev'.slot + 1].pending_response = ev'.sent ]_vars

\* A send of a pending response returned EAGAIN: the client is still
\* connected with the same response pending and write-interest.
C21_Witness ==
    /\ ev.op = "send_eagain"
    /\ StillConnected
    /\ clients[ev.slot + 1].is_response_pending
    /\ Resp = ev.sent
    /\ Resp.type \in {"get_attr_cfm", "get_attr_rej"}
    /\ reg_set[ev.fd] = "EPOLLOUT"

\* The value lengths left in the response buffer of the client of the last
\* operation are all below the size of a value field.  After an assertion
\* failure the buffer is as it was before the handler ran.
StaleLengthsOK ==
    \A k \in 1..CTL_PROTO_MAX_ATTRS :
        Resp.attrs[k].value_len < CTL_ATTR_VALUE_MAX

\* C22: the GetAllAttr handler aborts on account of the entry count only when
\* the table has more than CTL_PROTO_MAX_ATTRS non-sensitive attributes; a
\* table with at most that many, also with exactly that many, is enumerated
\* without abort.
C22_AbortOnlyOverMax ==
    (phase = "aborted" /\ ev.op = "get_all_attr" /\ StaleLengthsOK) =>
        Len(NonSensitive(attrs)) > CTL_PROTO_MAX_ATTRS

\* C23: the bound on the value length is enforced on the attribute being
\* added: when the table has fewer non-sensitive attributes than the entry
\* limit, the handler aborts only if a length reported by the table exceeds
\* the size of a value field, never on account of a length left in the
\* buffer by an earlier response.
C23_LengthOfAdded ==
    (phase = "aborted" /\ ev.op = "get_all_attr"
        /\ Len(NonSensitive(attrs)) < CTL_PROTO_MAX_ATTRS) =>
        \E k \in 1..Len(attrs) : Len(attrs[k].value) > CTL_ATTR_VALUE_MAX

RECURSIVE MaxSteps(_)
\* The largest number of steps (loop iterations and exits) of a call of
\* ctl_process that starts with at most b clients: each iteration may
\* remove a client and restart with one client less.
MaxSteps(b) == IF b <= 0 THEN 1 ELSE b * (1 + MaxSteps(b - 1)) + 1

\* The same for a call whose loop is at index i.
Remaining(i, b) ==
    IF b <= 0 THEN 1
    ELSE (IF b > i THEN b - i ELSE 0) * (1 + MaxSteps(b - 1)) + 1

RECURSIVE Measure(_, _)
\* A bound on the steps left in the calls st[1..j] of a stack: the call at
\* depth j has at most MAX_CLIENTS - j + 1 clients to scan, and a call that
\* waits for a restarted one goes on at its next index.
Measure(st, j) ==
    IF j = 0 THEN 0
    ELSE Measure(st, j - 1)
         + Remaining(IF j < Len(st) THEN st[j].i + 1 ELSE st[j].i,
                     MAX_CLIENTS - j + 1)

\* C24: every call of ctl_process terminates whatever recv, send and accept
\* return: each loop iteration and each exit lowers a bound on the steps
\* that are left, which is MaxSteps(MAX_CLIENTS) when the call starts, and
\* the recursion that restarts the scan is never deeper than one call per
\* client plus one.  ctl_destroy ends with every client removed and every
\* descriptor closed.
C24_Terminates ==
    /\ [](Len(stack) <= MAX_CLIENTS + 1)
    /\ [](ev.op = "destroy" => num_clients = 0 /\ open = {})
    /\ [][ (stack # <<>> /\ stack' # stack) =>
              Measure(stack', Len(stack')) < Measure(stack, Len(stack)) ]_vars

\* The recursion is at its deepest: every client of a full pool has been
\* removed, each removal restarting the scan.
C24_Witness ==
    /\ Len(stack) = MAX_CLIENTS + 1
    /\ num_clients = 0
    /\ ev.op \in FatalOps \cup {"recv_short"}

\* C25: every recv and send, and the registration change that follows it,
\* is on the descriptor of an occupied pool slot, which is open and is not
\* the listening descriptor, also in the iterations of a scan that go on
\* after a removal; the descriptors of the occupied slots are open and
\* pairwise different.
C25_NoClosedUse ==
    [][ /\ IsIter =>
              /\ Top.i < num_clients
              /\ ev'.slot = Top.i
              /\ ev'.fd = clients[Top.i + 1].fd
              /\ ev'.fd \in open
              /\ ev'.fd # server_fd
        /\ phase' = "live" =>
              \A s \in 1..num_clients' :
                  /\ clients'[s].fd \in open'
                  /\ clients'[s].fd # server_fd'
                  /\ \A t \in 1..num_clients' :
                        s # t => clients'[s].fd # clients'[t].fd ]_vars

\* A call that removed the client of slot 0 of a full pool and restarted has
\* gone on with its scan and read a request from the client in slot 1.
C25_Witness ==
    /\ stack # <<>>
    /\ Top.interrupted
    /\ ev.op \in {"get_attr", "get_all_attr"}
    /\ ev.slot = 1
    /\ phase = "live"
    /\ StillConnected

====
